---------------------------- MODULE Spec2Model ----------------------------
(* Otime-Discovery: the location resolver (GeminiService.resolveLocation)  *)
(* and the time converter component (AppComponent).                        *)
(*                                                                         *)
(* Time is counted in minutes.  A JavaScript Date is an instant, in        *)
(* minutes since 1970-01-01T00:00Z, or the Invalid Date.  The seconds of   *)
(* "now" are the same in both rendered strings of convertedResult and      *)
(* cancel in their difference, and every other value is minute-grained.    *)
(* Strings that the code trims are sequences of one-character strings;     *)
(* date/time strings are records of their textual components.              *)
EXTENDS Integers, Sequences, FiniteSets

(***************************************************************************)
(* Bounds of the model                                                     *)
(***************************************************************************)
\* longest query handed directly to resolveLocation (SpecService)
MaxQueryLen == 3
\* events after construction: the user's (resolve, swap, edit of the date
\* field) and the clock's advances
MaxSteps == 2

(***************************************************************************)
(* null, as of `LocationInfo | null' and `string | null'                   *)
(***************************************************************************)
Null == [null |-> TRUE]

(***************************************************************************)
(* Strings                                                                 *)
(***************************************************************************)
Alphabet == {" ", "a", "b"}

IsSpace(c) == c = " "

RECURSIVE TrimStart(_)
TrimStart(s) ==
    IF s # <<>> /\ IsSpace(Head(s)) THEN TrimStart(Tail(s)) ELSE s

RECURSIVE TrimEnd(_)
TrimEnd(s) ==
    IF s # <<>> /\ IsSpace(s[Len(s)]) THEN TrimEnd(SubSeq(s, 1, Len(s) - 1)) ELSE s

\* String.prototype.trim
Trim(s) == TrimEnd(TrimStart(s))

\* every string over Alphabet of length at most n
StringsUpTo(n) == UNION {[1..k -> Alphabet] : k \in 0..n}

(***************************************************************************)
(* The calendar of Date and Intl.DateTimeFormat (proleptic Gregorian)      *)
(***************************************************************************)
\* days since 1970-01-01 of the civil date y-m-d
DaysFromCivil(y, m, d) ==
    LET yy  == IF m <= 2 THEN y - 1 ELSE y
        era == yy \div 400
        yoe == yy - era * 400
        mp  == IF m > 2 THEN m - 3 ELSE m + 9
        doy == (153 * mp + 2) \div 5 + d - 1
        doe == yoe * 365 + yoe \div 4 - yoe \div 100 + doy
    IN  era * 146097 + doe - 719468

\* the civil date [y, mo, d] of a day number
CivilFromDays(z) ==
    LET zz  == z + 719468
        era == zz \div 146097
        doe == zz - era * 146097
        yoe == (doe - doe \div 1460 + doe \div 36524 - doe \div 146096) \div 365
        doy == doe - (365 * yoe + yoe \div 4 - yoe \div 100)
        mp  == (5 * doy + 2) \div 153
        d   == doy - (153 * mp + 2) \div 5 + 1
        m   == IF mp < 10 THEN mp + 3 ELSE mp - 9
        y   == yoe + era * 400 + (IF m <= 2 THEN 1 ELSE 0)
    IN  [y |-> y, mo |-> m, d |-> d]

\* minutes since the epoch of the naive wall-clock reading y-mo-d h:mi
WallMinutes(y, mo, d, h, mi) == (DaysFromCivil(y, mo, d) * 24 + h) * 60 + mi

\* the wall-clock fields [y, mo, d, h, mi] of a count of minutes
WallFields(w) ==
    LET days == w \div 1440
        c    == CivilFromDays(days)
        r    == w % 1440
    IN  [y |-> c.y, mo |-> c.mo, d |-> c.d, h |-> r \div 60, mi |-> r % 60]

\* 0 = Sunday .. 6 = Saturday; 1970-01-01 was a Thursday
Weekday(w) == ((w \div 1440) + 4) % 7

(***************************************************************************)
(* Time zones, as the runtime's zone database gives them for 2024          *)
(***************************************************************************)
KnownZones == {"UTC", "Europe/London", "America/New_York", "Asia/Kolkata",
               "Asia/Kathmandu"}

\* whether Intl accepts the identifier (it raises a RangeError otherwise)
IsKnownZone(tz) == tz \in KnownZones

\* the zone's offset from UTC, in minutes, at instant t
UtcOffset(tz, t) ==
    CASE tz = "Europe/London" ->
            IF /\ WallMinutes(2024, 3, 31, 1, 0) <= t
               /\ t < WallMinutes(2024, 10, 27, 1, 0) THEN 60 ELSE 0
      [] tz = "America/New_York" ->
            IF /\ WallMinutes(2024, 3, 10, 7, 0) <= t
               /\ t < WallMinutes(2024, 11, 3, 6, 0) THEN -240 ELSE -300
      [] tz = "Asia/Kolkata" -> 330
      [] tz = "Asia/Kathmandu" -> 345
      [] OTHER -> 0

\* the wall-clock reading, in zone tz, of instant t
ToLocal(tz, t) == t + UtcOffset(tz, t)

\* the instant of wall-clock reading w in zone tz (ECMAScript's UTC(t)): a
\* reading that a transition repeats or skips is read with the offset in
\* force before the transition
FromLocal(tz, w) ==
    LET before == UtcOffset(tz, w - 1440)
        after  == UtcOffset(tz, w + 1440)
    IN  IF UtcOffset(tz, w - before) = before THEN w - before
        ELSE IF UtcOffset(tz, w - after) = after THEN w - after
        ELSE w - before


(***************************************************************************)
(* Date objects and date/time strings                                      *)
(***************************************************************************)
\* new Date(NaN)
InvalidDate == [ok |-> FALSE, t |-> 0]

ValidDate(t) == [ok |-> TRUE, t |-> t]

\* A date/time string, by its form:
\*   "empty"   the empty string
\*   "iso"     YYYY-MM-DDTHH:mm
\*   "isoSec"  YYYY-MM-DDTHH:mm:00
\*   "noT"     text without a 'T', such as "tomorrow"
\*   "badT"    text with a 'T' that is no date, such as "2024-06-15Tnoon"
DateString(form, y, mo, d, h, mi) ==
    [form |-> form, y |-> y, mo |-> mo, d |-> d, h |-> h, mi |-> mi]

EmptyString == DateString("empty", 0, 0, 0, 0, 0)

\* `${year}-${month}-${day}T${hour}:${minute}` of wall-clock fields
IsoLocal(f) == DateString("iso", f.y, f.mo, f.d, f.h, f.mi)

\* whether numeric fields name a date and a time of day
FieldsInRange(f) ==
    /\ f.mo \in 1..12
    /\ f.d \in 1..31
    /\ f.h \in 0..23
    /\ f.mi \in 0..59

\* new Date(str) of a date/time string without an offset: local time of the
\* browser's zone bz
ParseDate(bz, s) ==
    IF s.form \in {"iso", "isoSec"} /\ FieldsInRange(s)
    THEN ValidDate(FromLocal(bz, WallMinutes(s.y, s.mo, s.d, s.h, s.mi)))
    ELSE InvalidDate

\* date.toLocaleString('en-US', {timeZone: tz, hour12: false}): the fields of
\* "M/D/YYYY, HH:mm:ss" (tz is a known zone)
ToLocaleString(tz, t) == WallFields(ToLocal(tz, t))

\* new Date(str) of such a string: local time of the browser's zone
ParseLocaleString(bz, f) ==
    IF FieldsInRange(f)
    THEN ValidDate(FromLocal(bz, WallMinutes(f.y, f.mo, f.d, f.h, f.mi)))
    ELSE InvalidDate

\* date.getTime() + ms, as a Date (NaN stays NaN)
PlusMinutes(date, m) == IF date.ok THEN ValidDate(date.t + m) ELSE InvalidDate

\* date.getDate(): the day of the month in the browser's zone
GetDate(bz, date) == WallFields(ToLocal(bz, date.t)).d

\* AppComponent.formatDate of a valid date: "Sat, Jun 15, 2:00 PM"
formatDate(bz, date) ==
    LET w == ToLocal(bz, date.t)
        f == WallFields(w)
    IN  [wd |-> Weekday(w), mo |-> f.mo, d |-> f.d,
         h12 |-> ((f.h + 11) % 12) + 1, mi |-> f.mi, pm |-> f.h >= 12]

\* Math.round(x * 10) / 10 in place of toFixed: a tie goes upwards
ToFixed1TieUpwards(m) ==
    LET n == (m + 3) \div 6
        x == IF n < 0 THEN -n ELSE n
    IN  [neg |-> n < 0, whole |-> x \div 10, tenth |-> x % 10]

\* (minutes / 60).toFixed(1): sign, whole hours and one decimal digit; a
\* tie goes to the larger magnitude
ToFixed1(m) ==
    LET x == IF m < 0 THEN -m ELSE m
        n == (x + 3) \div 6
    IN  [neg |-> m < 0, whole |-> n \div 10, tenth |-> n % 10]

(***************************************************************************)
(* AppComponent.convertedResult                                            *)
(***************************************************************************)
\* the comparison that sees a later day only
IsNextDayLaterOnly(bz, targetWallTime, inputWallTime) ==
    GetDate(bz, targetWallTime) > GetDate(bz, inputWallTime)

\* line 160
IsNextDay(bz, targetWallTime, inputWallTime) ==
    GetDate(bz, targetWallTime) # GetDate(bz, inputWallTime)

\* tgtDate.getTime() - srcDate.getTime(), in minutes
DiffMinutes(src, tgt, now, bz) ==
    LET srcStr  == ToLocaleString(src.ianaTimezone, now)
        tgtStr  == ToLocaleString(tgt.ianaTimezone, now)
        srcDate == ParseLocaleString(bz, srcStr)
        tgtDate == ParseLocaleString(bz, tgtStr)
    IN  tgtDate.t - srcDate.t

\* the try block with a formatDate that accepts an invalid date
ConvertThrowsOnZonesOnly(src, tgt, dateStr, bz) ==
    \/ dateStr.form = "noT"
    \/ ~IsKnownZone(src.ianaTimezone)
    \/ ~IsKnownZone(tgt.ianaTimezone)

\* whether the try block raises: timePart is undefined, the zone is not
\* known to Intl, or a date handed to formatDate is invalid
ConvertThrows(src, tgt, dateStr, bz) ==
    \/ dateStr.form = "noT"
    \/ ~IsKnownZone(src.ianaTimezone)
    \/ ~IsKnownZone(tgt.ianaTimezone)
    \/ ~ParseDate(bz, dateStr).ok

\* convertedResult whose catch returns what was computed before the throw
ConvertPartial(src, tgt, dateStr, now, bz) ==
    IF src = Null \/ tgt = Null \/ dateStr = EmptyString THEN Null
    ELSE IF ConvertThrows(src, tgt, dateStr, bz)
    THEN IF ParseDate(bz, dateStr).ok
         THEN [sourceTimeDisplay |-> formatDate(bz, ParseDate(bz, dateStr))]
         ELSE Null
    ELSE LET diffMs         == DiffMinutes(src, tgt, now, bz)
             inputWallTime  == ParseDate(bz, dateStr)
             targetWallTime == PlusMinutes(inputWallTime, diffMs)
         IN  [sourceTimeDisplay |-> formatDate(bz, inputWallTime),
              targetTimeDisplay |-> formatDate(bz, targetWallTime),
              diffHours |-> ToFixed1(diffMs),
              isNextDay |-> IsNextDay(bz, targetWallTime, inputWallTime)]

\* lines 125-166
Convert(src, tgt, dateStr, now, bz) ==
    IF src = Null \/ tgt = Null \/ dateStr = EmptyString THEN Null
    ELSE IF ConvertThrows(src, tgt, dateStr, bz) THEN Null
    ELSE LET diffMs         == DiffMinutes(src, tgt, now, bz)
             inputWallTime  == ParseDate(bz, dateStr)
             targetWallTime == PlusMinutes(inputWallTime, diffMs)
         IN  [sourceTimeDisplay |-> formatDate(bz, inputWallTime),
              targetTimeDisplay |-> formatDate(bz, targetWallTime),
              diffHours |-> ToFixed1(diffMs),
              isNextDay |-> IsNextDay(bz, targetWallTime, inputWallTime)]

(***************************************************************************)
(* GeminiService                                                           *)
(***************************************************************************)
LocationFields ==
    {"ianaTimezone", "fullName", "city", "country", "countryCode", "funFact"}

LocationInfo(tz, fullName, city, country, code, fact) ==
    [ianaTimezone |-> tz, fullName |-> fullName, city |-> city,
     country |-> country, countryCode |-> code, funFact |-> fact]

London ==
    LocationInfo("Europe/London", <<"L", "o", "n", "d", "o", "n", ",", " ", "U", "K">>,
                 "London", "United Kingdom", "gb", "Big Ben")

NewYork ==
    LocationInfo("America/New_York", <<"N", "e", "w", " ", "Y", "o", "r", "k", ",", " ", "U", "S">>,
                 "New York", "United States", "us", "Times Square")

Kolkata ==
    LocationInfo("Asia/Kolkata", <<"K", "o", "l", "k", "a", "t", "a", ",", " ", "I", "N">>,
                 "Kolkata", "India", "in", "One zone")

Kathmandu ==
    LocationInfo("Asia/Kathmandu", <<"K", "a", "t", "h", "m", "a", "n", "d", "u", ",", " ", "N", "P">>,
                 "Kathmandu", "Nepal", "np", "Quarter hour")

\* a location whose zone identifier Intl does not know
Phobos ==
    LocationInfo("Mars/Phobos", <<"P", "h", "o", "b", "o", "s">>,
                 "Phobos", "Mars", "xx", "No clocks")

\* the fields the service fills in when it finds no location
Nowhere == LocationInfo("", <<>>, "", "", "", "")

\* the response texts of the remote service, by what JSON.parse makes of
\* them: "empty" (''), "malformed" (no JSON), "null" (the JSON null), and
\* "object" with its fields
ResponseText(syntax, fields) == [syntax |-> syntax, fields |-> fields]

\* the JSON object {}
EmptyObject == [f \in {} |-> TRUE]

\* the JSON object of a location, with its valid flag
LocationObject(loc, valid) ==
    [f \in LocationFields \cup {"valid"} |-> IF f = "valid" THEN valid ELSE loc[f]]

\* what generateContent can do: reject, or resolve with a response text
RemoteOutcomes(locs) ==
    {[kind |-> "reject", text |-> ResponseText("empty", EmptyObject)]}
    \cup {[kind |-> "text", text |-> ResponseText(x, EmptyObject)] :
             x \in {"empty", "malformed", "null"}}
    \cup {[kind |-> "text", text |-> ResponseText("object", LocationObject(l, FALSE))] :
             l \in {Nowhere}}
    \cup {[kind |-> "text", text |-> ResponseText("object", LocationObject(l, TRUE))] :
             l \in locs}

\* the settlement of the promise resolveLocation returns
Fulfilled(v) == [rejected |-> FALSE, value |-> v]
Rejected == [rejected |-> TRUE, value |-> Null]

\* the guard measuring the query as typed: query.length < 2
PassesGuardUntrimmed(query) == ~(query = <<>> \/ Len(query) < 2)

\* line 24: whether the query gets past the guard, so that generateContent
\* is called
PassesGuard(query) == ~(query = <<>> \/ Len(Trim(query)) < 2)

\* the try block returning the fields of any object that has a valid flag
TryBlockAnyFlag(outcome) ==
    LET text == IF outcome.text.syntax = "empty"
                THEN ResponseText("object", EmptyObject)
                ELSE outcome.text
        data == text.fields
    IN  IF outcome.kind = "reject" THEN [threw |-> TRUE, value |-> Null]
        ELSE IF text.syntax \in {"malformed", "null"} THEN [threw |-> TRUE, value |-> Null]
        ELSE IF ~("valid" \in DOMAIN data) THEN [threw |-> FALSE, value |-> Null]
        ELSE [threw |-> FALSE, value |-> [f \in LocationFields |-> data[f]]]

\* lines 32-64, the try block after the remote call is issued: either it
\* raises or it returns a value
TryBlock(outcome) ==
    LET text == IF outcome.text.syntax = "empty"
                THEN ResponseText("object", EmptyObject)
                ELSE outcome.text
        data == text.fields
    IN  IF outcome.kind = "reject" THEN [threw |-> TRUE, value |-> Null]
        ELSE IF text.syntax \in {"malformed", "null"} THEN [threw |-> TRUE, value |-> Null]
        ELSE IF ~("valid" \in DOMAIN data /\ data["valid"]) THEN [threw |-> FALSE, value |-> Null]
        ELSE [threw |-> FALSE, value |-> [f \in LocationFields |-> data[f]]]

\* the try block without its catch: what it raises rejects the promise
resolveLocationUncaught(outcome) ==
    LET r == TryBlock(outcome)
    IN  IF r.threw THEN Rejected ELSE Fulfilled(r.value)

\* lines 26-69: the try block under its catch
resolveLocationAfterAwait(outcome) ==
    LET r == TryBlock(outcome)
    IN  IF r.threw THEN Fulfilled(Null) ELSE Fulfilled(r.value)

(***************************************************************************)
(* State                                                                   *)
(***************************************************************************)
VARIABLES
    sourceQuery,        \* AppComponent.sourceQuery
    targetQuery,        \* AppComponent.targetQuery
    sourceLocation,     \* AppComponent.sourceLocation: LocationInfo or Null
    targetLocation,     \* AppComponent.targetLocation
    isLoadingSource,    \* AppComponent.isLoadingSource
    isLoadingTarget,    \* AppComponent.isLoadingTarget
    selectedDate,       \* AppComponent.selectedDate: a date/time string
    error,              \* AppComponent.error: a message or Null
    pending,            \* resolveSource / resolveTarget calls suspended at
                        \* their await, in the order they were issued
    remoteCalls,        \* generateContent calls issued so far
    nowIdx,             \* the clock: new Date() is NowValues[nowIdx]
    browserZone,        \* the zone of the browser the component runs in
    steps,              \* events so far
    lastOp,             \* the handler or continuation that ran last
    svc                 \* a direct invocation of GeminiService.resolveLocation

vars == <<sourceQuery, targetQuery, sourceLocation, targetLocation,
          isLoadingSource, isLoadingTarget, selectedDate, error, pending,
          remoteCalls, nowIdx, browserZone, steps, lastOp, svc>>

appVars == <<sourceQuery, targetQuery, sourceLocation, targetLocation,
             isLoadingSource, isLoadingTarget, selectedDate, error, pending,
             nowIdx, browserZone, steps, lastOp>>

(***************************************************************************)
(* The environment: the clock, the browser, the user, the remote service   *)
(***************************************************************************)
\* the instants at which the model reads the clock, in order: between New
\* York's and London's change to summer time, in summer, and in the hour
\* before New York's change back
NowValues ==
    <<WallMinutes(2024, 3, 20, 12, 0),
      WallMinutes(2024, 6, 15, 13, 0),
      WallMinutes(2024, 11, 3, 5, 30)>>

Now == NowValues[nowIdx]

BrowserZones == {"UTC", "America/New_York"}

LondonQuery == <<"L", "o", "n", "d", "o", "n">>
NewYorkQuery == <<"N", "e", "w", " ", "Y", "o", "r", "k">>

\* what the user submits as a query: nothing, too little, and a name
QueryInputs == {<<>>, <<" ", "a">>, <<"a", "b">>}

\* what the user can leave in the date field
DateInputs ==
    {EmptyString,
     DateString("noT", 0, 0, 0, 0, 0),
     DateString("badT", 0, 0, 0, 0, 0),
     DateString("iso", 2024, 13, 1, 10, 0),
     DateString("isoSec", 2024, 6, 15, 14, 0),
     DateString("iso", 2024, 6, 15, 14, 0),
     DateString("iso", 2024, 6, 15, 2, 0),
     DateString("iso", 2024, 6, 15, 22, 0),
     DateString("iso", 2024, 3, 10, 0, 30)}

\* what the user types into the date field while resolutions are under way
EditInputs == {EmptyString, DateString("iso", 2024, 6, 15, 14, 0)}

\* the locations the remote service answers with
RemoteLocations == {London, NewYork, Phobos}

Locations == {London, NewYork, Kolkata, Kathmandu, Phobos}

(***************************************************************************)
(* AppComponent                                                            *)
(***************************************************************************)
Op(op, result) == [op |-> op, result |-> result]

ErrorMessage(text, query) == [text |-> text, query |-> query]

\* `Could not find location: ${query}`
CouldNotFind(query) == ErrorMessage("Could not find location: ", query)

\* updateTimeForSource without the timeZone option: the time in UTC
updateTimeForSourceUTC(timeZone, current, t) ==
    IF IsKnownZone(timeZone)
    THEN IsoLocal(WallFields(t))
    ELSE current

\* updateTimeForSource whose catch falls back to the time in UTC
updateTimeForSourceFallback(timeZone, current, t) ==
    IF IsKnownZone(timeZone)
    THEN IsoLocal(WallFields(ToLocal(timeZone, t)))
    ELSE IsoLocal(WallFields(t))

\* lines 104-122: the value selectedDate holds after updateTimeForSource
\* (Intl raises on an unknown zone, and the catch leaves the value alone)
updateTimeForSource(timeZone, current, t) ==
    IF IsKnownZone(timeZone)
    THEN IsoLocal(WallFields(ToLocal(timeZone, t)))
    ELSE current

\* lines 125-166
convertedResult ==
    Convert(sourceLocation, targetLocation, selectedDate, Now, browserZone)

\* convertedResult in the state a step leads to
convertedResultNext ==
    Convert(sourceLocation', targetLocation', selectedDate', NowValues[nowIdx'],
            browserZone')

\* a call that resolveLocation answered without a remote call resumes as a
\* microtask, before any other event
MicrotaskDue == \E i \in DOMAIN pending : ~pending[i].remote

Remove(seq, i) == SubSeq(seq, 1, i - 1) \o SubSeq(seq, i + 1, Len(seq))

\* no direct invocation of resolveLocation is under way
NoOutcome == [kind |-> "none", text |-> ResponseText("empty", EmptyObject)]

Idle == [stage |-> "idle", query |-> <<>>, callsBefore |-> 0,
         outcome |-> NoOutcome, settled |-> Fulfilled(Null)]

\* lines 28, 35-39: the state when the constructor returns
Init ==
    /\ nowIdx = 1
    /\ browserZone \in BrowserZones
    /\ sourceQuery = LondonQuery
    /\ targetQuery = NewYorkQuery
    /\ sourceLocation = Null
    /\ targetLocation = Null
    /\ isLoadingSource = TRUE
    /\ isLoadingTarget = TRUE
    /\ selectedDate = IsoLocal(WallFields(NowValues[1]))
    /\ error = Null
    /\ pending = <<[slot |-> "source", query |-> LondonQuery, remote |-> PassesGuard(LondonQuery)],
                   [slot |-> "target", query |-> NewYorkQuery, remote |-> PassesGuard(NewYorkQuery)]>>
    /\ remoteCalls = 2
    /\ steps = 0
    /\ lastOp = Op("constructor", Null)
    /\ svc = Idle

\* resolveSource without its `if (!query) return`
resolveSourceNoGuard(query) ==
    /\ ~MicrotaskDue
    /\ steps < MaxSteps
    /\ steps' = steps + 1
    /\ lastOp' = Op("resolveSource", Null)
    /\ isLoadingSource' = TRUE
    /\ error' = Null
    /\ sourceQuery' = query
    /\ pending' = Append(pending, [slot |-> "source", query |-> query,
                                    remote |-> PassesGuard(query)])
    /\ remoteCalls' = IF PassesGuard(query) THEN remoteCalls + 1 ELSE remoteCalls
    /\ UNCHANGED <<targetQuery, sourceLocation, targetLocation, isLoadingTarget,
                   selectedDate, nowIdx, browserZone, svc>>

\* lines 41-49: resolveSource up to its await
resolveSource(query) ==
    /\ ~MicrotaskDue
    /\ steps < MaxSteps
    /\ steps' = steps + 1
    /\ lastOp' = Op("resolveSource", Null)
    /\ IF query = <<>>
       THEN UNCHANGED <<isLoadingSource, error, sourceQuery, pending, remoteCalls>>
       ELSE /\ isLoadingSource' = TRUE
            /\ error' = Null
            /\ sourceQuery' = query
            /\ pending' = Append(pending, [slot |-> "source", query |-> query,
                                            remote |-> PassesGuard(query)])
            /\ remoteCalls' = IF PassesGuard(query) THEN remoteCalls + 1 ELSE remoteCalls
    /\ UNCHANGED <<targetQuery, sourceLocation, targetLocation, isLoadingTarget,
                   selectedDate, nowIdx, browserZone, svc>>

\* lines 65-73: resolveTarget up to its await
resolveTarget(query) ==
    /\ ~MicrotaskDue
    /\ steps < MaxSteps
    /\ steps' = steps + 1
    /\ lastOp' = Op("resolveTarget", Null)
    /\ IF query = <<>>
       THEN UNCHANGED <<isLoadingTarget, error, targetQuery, pending, remoteCalls>>
       ELSE /\ isLoadingTarget' = TRUE
            /\ error' = Null
            /\ targetQuery' = query
            /\ pending' = Append(pending, [slot |-> "target", query |-> query,
                                            remote |-> PassesGuard(query)])
            /\ remoteCalls' = IF PassesGuard(query) THEN remoteCalls + 1 ELSE remoteCalls
    /\ UNCHANGED <<sourceQuery, sourceLocation, targetLocation, isLoadingSource,
                   selectedDate, nowIdx, browserZone, svc>>

\* the settlement of pending call i, given what the remote service does
Settlement(i, outcome) ==
    IF pending[i].remote THEN resolveLocationAfterAwait(outcome) ELSE Fulfilled(Null)

\* which pending calls may resume now
MayResume(i) == pending[i].remote = ~MicrotaskDue

\* resolveSource storing its result in the slot that now shows the query
\* of the call
resolveSourceFollowsQuery(i, outcome) ==
    /\ i \in DOMAIN pending
    /\ pending[i].slot = "source"
    /\ MayResume(i)
    /\ LET s == Settlement(i, outcome)
           result == s.value
           moved == targetQuery = pending[i].query /\ sourceQuery # pending[i].query
       IN  /\ lastOp' = Op("resolveSourceAfterAwait", result)
           /\ IF s.rejected
              THEN /\ error' = ErrorMessage("Failed to resolve source location.", <<>>)
                   /\ UNCHANGED <<sourceLocation, sourceQuery, selectedDate,
                                  targetLocation, targetQuery>>
              ELSE IF result # Null /\ moved
              THEN /\ targetLocation' = result
                   /\ targetQuery' = result.fullName
                   /\ UNCHANGED <<sourceLocation, sourceQuery, selectedDate, error>>
              ELSE IF result # Null
              THEN /\ sourceLocation' = result
                   /\ sourceQuery' = result.fullName
                   /\ selectedDate' = updateTimeForSource(result.ianaTimezone, selectedDate, Now)
                   /\ UNCHANGED <<error, targetLocation, targetQuery>>
              ELSE /\ error' = CouldNotFind(pending[i].query)
                   /\ UNCHANGED <<sourceLocation, sourceQuery, selectedDate,
                                  targetLocation, targetQuery>>
    /\ isLoadingSource' = FALSE
    /\ pending' = Remove(pending, i)
    /\ UNCHANGED <<isLoadingTarget, remoteCalls, nowIdx, browserZone, steps, svc>>

\* resolveSource applying its result only when no later call for the slot
\* is outstanding
resolveSourceLatestOnly(i, outcome) ==
    /\ i \in DOMAIN pending
    /\ pending[i].slot = "source"
    /\ MayResume(i)
    /\ LET s == Settlement(i, outcome)
           result == s.value
           latest == \A j \in DOMAIN pending : j > i => pending[j].slot # "source"
       IN  /\ lastOp' = Op("resolveSourceAfterAwait", result)
           /\ IF s.rejected
              THEN /\ error' = ErrorMessage("Failed to resolve source location.", <<>>)
                   /\ UNCHANGED <<sourceLocation, sourceQuery, selectedDate>>
              ELSE IF result # Null /\ latest
              THEN /\ sourceLocation' = result
                   /\ sourceQuery' = result.fullName
                   /\ selectedDate' = updateTimeForSource(result.ianaTimezone, selectedDate, Now)
                   /\ UNCHANGED error
              ELSE IF result # Null
              THEN UNCHANGED <<sourceLocation, sourceQuery, selectedDate, error>>
              ELSE /\ error' = CouldNotFind(pending[i].query)
                   /\ UNCHANGED <<sourceLocation, sourceQuery, selectedDate>>
    /\ isLoadingSource' = FALSE
    /\ pending' = Remove(pending, i)
    /\ UNCHANGED <<targetQuery, targetLocation, isLoadingTarget, remoteCalls,
                   nowIdx, browserZone, steps, svc>>

\* resolveSource with the loading flag cleared in the branch of a found
\* location instead of the finally block
resolveSourceClearsOnSuccess(i, outcome) ==
    /\ i \in DOMAIN pending
    /\ pending[i].slot = "source"
    /\ MayResume(i)
    /\ LET s == Settlement(i, outcome)
           result == s.value
       IN  /\ lastOp' = Op("resolveSourceAfterAwait", result)
           /\ IF s.rejected
              THEN /\ error' = ErrorMessage("Failed to resolve source location.", <<>>)
                   /\ UNCHANGED <<sourceLocation, sourceQuery, selectedDate, isLoadingSource>>
              ELSE IF result # Null
              THEN /\ sourceLocation' = result
                   /\ sourceQuery' = result.fullName
                   /\ selectedDate' = updateTimeForSource(result.ianaTimezone, selectedDate, Now)
                   /\ isLoadingSource' = FALSE
                   /\ UNCHANGED error
              ELSE /\ error' = CouldNotFind(pending[i].query)
                   /\ UNCHANGED <<sourceLocation, sourceQuery, selectedDate, isLoadingSource>>
    /\ pending' = Remove(pending, i)
    /\ UNCHANGED <<targetQuery, targetLocation, isLoadingTarget, remoteCalls,
                   nowIdx, browserZone, steps, svc>>

\* lines 49-62: resolveSource from its await on
resolveSourceAfterAwait(i, outcome) ==
    /\ i \in DOMAIN pending
    /\ pending[i].slot = "source"
    /\ MayResume(i)
    /\ LET s == Settlement(i, outcome)
           result == s.value
       IN  /\ lastOp' = Op("resolveSourceAfterAwait", result)
           /\ IF s.rejected
              THEN /\ error' = ErrorMessage("Failed to resolve source location.", <<>>)
                   /\ UNCHANGED <<sourceLocation, sourceQuery, selectedDate>>
              ELSE IF result # Null
              THEN /\ sourceLocation' = result
                   /\ sourceQuery' = result.fullName
                   /\ selectedDate' = updateTimeForSource(result.ianaTimezone, selectedDate, Now)
                   /\ UNCHANGED error
              ELSE /\ error' = CouldNotFind(pending[i].query)
                   /\ UNCHANGED <<sourceLocation, sourceQuery, selectedDate>>
    /\ isLoadingSource' = FALSE
    /\ pending' = Remove(pending, i)
    /\ UNCHANGED <<targetQuery, targetLocation, isLoadingTarget, remoteCalls,
                   nowIdx, browserZone, steps, svc>>

\* resolveTarget storing its result in sourceLocation
resolveTargetWritesSource(i, outcome) ==
    /\ i \in DOMAIN pending
    /\ pending[i].slot = "target"
    /\ MayResume(i)
    /\ LET s == Settlement(i, outcome)
           result == s.value
       IN  /\ lastOp' = Op("resolveTargetAfterAwait", result)
           /\ IF s.rejected
              THEN /\ error' = ErrorMessage("Failed to resolve target location.", <<>>)
                   /\ UNCHANGED <<sourceLocation, targetQuery>>
              ELSE IF result # Null
              THEN /\ sourceLocation' = result
                   /\ targetQuery' = result.fullName
                   /\ UNCHANGED error
              ELSE /\ error' = CouldNotFind(pending[i].query)
                   /\ UNCHANGED <<sourceLocation, targetQuery>>
    /\ isLoadingTarget' = FALSE
    /\ pending' = Remove(pending, i)
    /\ UNCHANGED <<sourceQuery, targetLocation, isLoadingSource, selectedDate,
                   remoteCalls, nowIdx, browserZone, steps, svc>>

\* lines 73-84: resolveTarget from its await on
resolveTargetAfterAwait(i, outcome) ==
    /\ i \in DOMAIN pending
    /\ pending[i].slot = "target"
    /\ MayResume(i)
    /\ LET s == Settlement(i, outcome)
           result == s.value
       IN  /\ lastOp' = Op("resolveTargetAfterAwait", result)
           /\ IF s.rejected
              THEN /\ error' = ErrorMessage("Failed to resolve target location.", <<>>)
                   /\ UNCHANGED <<targetLocation, targetQuery>>
              ELSE IF result # Null
              THEN /\ targetLocation' = result
                   /\ targetQuery' = result.fullName
                   /\ UNCHANGED error
              ELSE /\ error' = CouldNotFind(pending[i].query)
                   /\ UNCHANGED <<targetLocation, targetQuery>>
    /\ isLoadingTarget' = FALSE
    /\ pending' = Remove(pending, i)
    /\ UNCHANGED <<sourceQuery, sourceLocation, isLoadingSource, selectedDate,
                   remoteCalls, nowIdx, browserZone, steps, svc>>

\* a swap that exchanges the locations and leaves the query texts
swapLocationsOnly ==
    /\ ~MicrotaskDue
    /\ steps < MaxSteps
    /\ steps' = steps + 1
    /\ lastOp' = Op("swapLocations", Null)
    /\ sourceLocation' = targetLocation
    /\ targetLocation' = sourceLocation
    /\ selectedDate' = IF targetLocation # Null
                       THEN updateTimeForSource(targetLocation.ianaTimezone, selectedDate, Now)
                       ELSE selectedDate
    /\ UNCHANGED <<sourceQuery, targetQuery, isLoadingSource, isLoadingTarget, error,
                   pending, remoteCalls, nowIdx, browserZone, svc>>

\* a swap that seeds the date field from the location it moves out of the
\* source slot
swapLocationsOldSourceTime ==
    /\ ~MicrotaskDue
    /\ steps < MaxSteps
    /\ steps' = steps + 1
    /\ lastOp' = Op("swapLocations", Null)
    /\ sourceLocation' = targetLocation
    /\ targetLocation' = sourceLocation
    /\ sourceQuery' = targetQuery
    /\ targetQuery' = sourceQuery
    /\ selectedDate' = IF sourceLocation # Null
                       THEN updateTimeForSource(sourceLocation.ianaTimezone, selectedDate, Now)
                       ELSE selectedDate
    /\ UNCHANGED <<isLoadingSource, isLoadingTarget, error, pending, remoteCalls,
                   nowIdx, browserZone, svc>>

\* lines 87-102
swapLocations ==
    /\ ~MicrotaskDue
    /\ steps < MaxSteps
    /\ steps' = steps + 1
    /\ lastOp' = Op("swapLocations", Null)
    /\ LET sLoc == sourceLocation
           tLoc == targetLocation
           sQ   == sourceQuery
           tQ   == targetQuery
       IN  /\ sourceLocation' = tLoc
           /\ targetLocation' = sLoc
           /\ sourceQuery' = tQ
           /\ targetQuery' = sQ
           /\ selectedDate' = IF tLoc # Null
                              THEN updateTimeForSource(tLoc.ianaTimezone, selectedDate, Now)
                              ELSE selectedDate
    /\ UNCHANGED <<isLoadingSource, isLoadingTarget, error, pending, remoteCalls,
                   nowIdx, browserZone, svc>>

\* the user edits the date field, which is bound to selectedDate (line 28)
setSelectedDate(value) ==
    /\ ~MicrotaskDue
    /\ steps < MaxSteps
    /\ steps' = steps + 1
    /\ lastOp' = Op("setSelectedDate", Null)
    /\ selectedDate' = value
    /\ UNCHANGED <<sourceQuery, targetQuery, sourceLocation, targetLocation,
                   isLoadingSource, isLoadingTarget, error, pending, remoteCalls,
                   nowIdx, browserZone, svc>>

\* the clock moves on between events
Tick ==
    /\ ~MicrotaskDue
    /\ steps < MaxSteps
    /\ steps' = steps + 1
    /\ nowIdx < Len(NowValues)
    /\ nowIdx' = nowIdx + 1
    /\ lastOp' = Op("Tick", Null)
    /\ UNCHANGED <<sourceQuery, targetQuery, sourceLocation, targetLocation,
                   isLoadingSource, isLoadingTarget, selectedDate, error, pending,
                   remoteCalls, browserZone, svc>>

Next ==
    \/ \E q \in QueryInputs : resolveSource(q)
    \/ \E q \in QueryInputs : resolveTarget(q)
    \/ \E i \in 1..Len(pending), o \in RemoteOutcomes(RemoteLocations) :
          resolveSourceAfterAwait(i, o)
    \/ \E i \in 1..Len(pending), o \in RemoteOutcomes(RemoteLocations) :
          resolveTargetAfterAwait(i, o)
    \/ swapLocations
    \/ \E v \in EditInputs : setSelectedDate(v)
    \/ Tick

Spec == Init /\ [][Next]_vars

\* a suspended call resumes: the promise it awaits settles and the event
\* loop runs its continuation
Complete ==
    \E i \in 1..Len(pending), o \in RemoteOutcomes(RemoteLocations) :
        resolveSourceAfterAwait(i, o) \/ resolveTargetAfterAwait(i, o)

\* the state when the constructor returns, in a browser whose zone is UTC
\* (the browser's zone bears on convertedResult alone)
InitLive == Init /\ browserZone = "UTC"

\* the resolutions and the swaps, the date field and the clock left alone
NextLive ==
    \/ \E q \in QueryInputs : resolveSource(q)
    \/ \E q \in QueryInputs : resolveTarget(q)
    \/ Complete
    \/ swapLocations

\* every call to resolveLocation settles in the end, and a settled promise's
\* continuation is run
SpecLive == InitLive /\ [][NextLive]_vars /\ WF_vars(Complete)

(***************************************************************************)
(* GeminiService.resolveLocation called on its own                         *)
(***************************************************************************)
\* lines 23-32: resolveLocation up to its await, or to its early return
resolveLocation(query) ==
    /\ svc.stage = "idle"
    /\ IF PassesGuard(query)
       THEN /\ svc' = [stage |-> "awaiting", query |-> query, callsBefore |-> remoteCalls,
                       outcome |-> NoOutcome, settled |-> Fulfilled(Null)]
            /\ remoteCalls' = remoteCalls + 1
       ELSE /\ svc' = [stage |-> "done", query |-> query, callsBefore |-> remoteCalls,
                       outcome |-> NoOutcome, settled |-> Fulfilled(Null)]
            /\ UNCHANGED remoteCalls
    /\ UNCHANGED appVars

\* lines 32-69: resolveLocation from its await on
resolveLocationResume(outcome) ==
    /\ svc.stage = "awaiting"
    /\ svc' = [svc EXCEPT !.stage = "done", !.outcome = outcome,
                          !.settled = resolveLocationAfterAwait(outcome)]
    /\ UNCHANGED remoteCalls
    /\ UNCHANGED appVars

InitService == Init /\ browserZone = "UTC"

NextService ==
    \/ \E q \in StringsUpTo(MaxQueryLen) : resolveLocation(q)
    \/ \E o \in RemoteOutcomes(Locations) : resolveLocationResume(o)

SpecService == InitService /\ [][NextService]_vars

(***************************************************************************)
(* The component at rest: no resolution under way, any pair of locations   *)
(***************************************************************************)
QueryOf(loc, initial) == IF loc = Null THEN initial ELSE loc.fullName

InitConvert ==
    /\ nowIdx \in 1..Len(NowValues)
    /\ browserZone \in BrowserZones
    /\ sourceLocation \in Locations \cup {Null}
    /\ targetLocation \in Locations \cup {Null}
    /\ sourceQuery = QueryOf(sourceLocation, LondonQuery)
    /\ targetQuery = QueryOf(targetLocation, NewYorkQuery)
    /\ isLoadingSource = FALSE
    /\ isLoadingTarget = FALSE
    /\ selectedDate \in DateInputs
    /\ error = Null
    /\ pending = <<>>
    /\ remoteCalls = 2
    /\ steps = 0
    /\ lastOp = Op("setSelectedDate", Null)
    /\ svc = Idle

NextConvert ==
    \/ swapLocations
    \/ \E v \in DateInputs : setSelectedDate(v)
    \/ Tick

SpecConvert == InitConvert /\ [][NextConvert]_vars

(***************************************************************************)
(* Properties of resolveLocation (SpecService)                             *)
(***************************************************************************)
\* C1: a query whose trimmed length is below 2 (the empty string and blank
\* strings included) makes resolveLocation return null at once, and the
\* invocation issues no generateContent call.
C1_ShortQueryIsNullWithoutRemoteCall ==
    (svc.stage # "idle" /\ Len(Trim(svc.query)) < 2)
        => /\ svc.stage = "done"
           /\ svc.settled = Fulfilled(Null)
           /\ remoteCalls = svc.callsBefore

\* a blank-padded one-character query has been answered
C1_Witness ==
    /\ svc.stage = "done"
    /\ Len(svc.query) >= 2
    /\ Len(Trim(svc.query)) = 1

\* whether the remote call failed: it rejected, or its text is no JSON
\* object
RemoteFailed(outcome) ==
    \/ outcome.kind = "reject"
    \/ outcome.kind = "text" /\ outcome.text.syntax \in {"malformed", "null"}

\* C2: when the remote call rejects or its response cannot be read,
\* resolveLocation completes with null; its promise is never rejected.
C2_FailureIsNullNeverRaised ==
    svc.stage = "done"
        => /\ ~svc.settled.rejected
           /\ RemoteFailed(svc.outcome) => svc.settled.value = Null

\* the remote call rejected and resolveLocation has completed
C2_Witness ==
    /\ svc.stage = "done"
    /\ svc.outcome.kind = "reject"
    /\ svc.settled = Fulfilled(Null)

\* whether the response is an object whose valid flag is true
SaysValid(outcome) ==
    /\ outcome.kind = "text"
    /\ outcome.text.syntax = "object"
    /\ "valid" \in DOMAIN outcome.text.fields
    /\ outcome.text.fields["valid"] = TRUE

\* C3: after a remote call, resolveLocation returns a LocationInfo exactly
\* when the response says valid = true (null when the flag is false or
\* missing), and the LocationInfo has the six fields of the response and
\* no other.
C3_LocationOnlyWhenValid ==
    (svc.stage = "done" /\ svc.outcome.kind # "none")
        => /\ (svc.settled.value # Null) <=> SaysValid(svc.outcome)
           /\ svc.settled.value # Null
                => /\ DOMAIN svc.settled.value = LocationFields
                   /\ \A f \in LocationFields :
                         svc.settled.value[f] = svc.outcome.text.fields[f]

\* a response with valid = false has been answered with null
C3_Witness ==
    /\ svc.stage = "done"
    /\ svc.outcome.kind = "text"
    /\ svc.outcome.text.syntax = "object"
    /\ "valid" \in DOMAIN svc.outcome.text.fields
    /\ svc.outcome.text.fields["valid"] = FALSE
    /\ svc.settled.value = Null

(***************************************************************************)
(* Properties of convertedResult (SpecConvert)                             *)
(***************************************************************************)
\* a date/time string that is no date and time: it has no 'T', or what
\* surrounds the 'T' is not numbers naming a date and a time of day
Unreadable(s) ==
    \/ s.form \in {"noT", "badT"}
    \/ s.form \in {"iso", "isoSec"} /\ ~FieldsInRange(s)

\* C4 as stated: convertedResult is null whenever a location is null or
\* selectedDate is empty or not of the form YYYY-MM-DDTHH:mm, and non-null
\* only when both locations are present and a date/time string is set.
C4_NullUnlessIsoForm ==
    /\ (\/ sourceLocation = Null
        \/ targetLocation = Null
        \/ selectedDate = EmptyString
        \/ selectedDate.form # "iso") => convertedResult = Null
    /\ convertedResult # Null
          => sourceLocation # Null /\ targetLocation # Null /\ selectedDate # EmptyString

\* C4 (amended): convertedResult is null whenever a location is null or
\* selectedDate is empty or cannot be read as a date and time, and non-null
\* only when both locations are present and a date/time string is set.
C4_NullUnlessReadable ==
    /\ (\/ sourceLocation = Null
        \/ targetLocation = Null
        \/ selectedDate = EmptyString
        \/ Unreadable(selectedDate)) => convertedResult = Null
    /\ convertedResult # Null
          => sourceLocation # Null /\ targetLocation # Null /\ selectedDate # EmptyString

\* both locations are known and the date field holds text with a 'T' that
\* is no date
C4_Witness ==
    /\ sourceLocation = London
    /\ targetLocation = NewYork
    /\ selectedDate.form = "badT"
    /\ convertedResult = Null

\* the offset of the target's local time from the source's at instant t
Differential(src, tgt, t) ==
    UtcOffset(tgt.ianaTimezone, t) - UtcOffset(src.ianaTimezone, t)

\* the display of a naive wall-clock value
NaiveDisplay(w) == formatDate("UTC", ValidDate(w))

\* C5: the target wall-clock value is the input wall-clock value plus the
\* offset differential at the current instant; from London to New York,
\* 2024-06-15T14:00 gives 2024-06-15T09:00, diffHours -5.0 and isNextDay
\* false.
C5_TargetIsInputPlusDifferential ==
    (convertedResult # Null /\ selectedDate.form = "iso")
        => LET w == WallMinutes(selectedDate.y, selectedDate.mo, selectedDate.d,
                                selectedDate.h, selectedDate.mi)
               diff == Differential(sourceLocation, targetLocation, Now)
           IN  /\ convertedResult.targetTimeDisplay = NaiveDisplay(w + diff)
               /\ (/\ sourceLocation = London
                   /\ targetLocation = NewYork
                   /\ selectedDate = DateString("iso", 2024, 6, 15, 14, 0))
                     => /\ convertedResult.targetTimeDisplay
                              = NaiveDisplay(WallMinutes(2024, 6, 15, 9, 0))
                        /\ convertedResult.diffHours = [neg |-> TRUE, whole |-> 5, tenth |-> 0]
                        /\ convertedResult.isNextDay = FALSE

\* whether two diffHours have the same magnitude and opposite signs
Negated(a, b) ==
    /\ a.whole = b.whole
    /\ a.tenth = b.tenth
    /\ (a.whole = 0 /\ a.tenth = 0) \/ a.neg # b.neg

\* C6: when swapLocations runs with a conversion on display, the diffHours
\* of the conversion after the swap, at the same instant, has the same
\* magnitude as the one before it and the opposite sign.
C6_SwapNegatesDiffHours ==
    [][(/\ lastOp'.op = "swapLocations"
        /\ convertedResult # Null
        /\ convertedResultNext # Null)
          => /\ nowIdx' = nowIdx
             /\ Negated(convertedResult.diffHours, convertedResultNext.diffHours)]_vars

\* a swap has left a conversion with a negative, fractional diffHours
C6_Witness ==
    /\ lastOp.op = "swapLocations"
    /\ convertedResult # Null
    /\ convertedResult.diffHours.neg
    /\ convertedResult.diffHours.tenth # 0

\* C7: isNextDay is true exactly when the day of the month of the target
\* wall-clock value differs from that of the input wall-clock value,
\* whether the target day is the later or the earlier one.
C7_IsNextDayIffDayDiffers ==
    convertedResult # Null
        => /\ convertedResult.sourceTimeDisplay.d = selectedDate.d
           /\ convertedResult.isNextDay
                 <=> convertedResult.targetTimeDisplay.d # selectedDate.d

\* the target falls on the day before the input's
C7_Witness ==
    /\ convertedResult # Null
    /\ convertedResult.isNextDay
    /\ convertedResult.targetTimeDisplay.d = selectedDate.d - 1

(***************************************************************************)
(* Properties of the handlers (Spec)                                       *)
(***************************************************************************)
\* C8: a swapLocations step exchanges the two slots together: after it the
\* source slot holds the former target location and query and the target
\* slot the former source location and query; the exchange is one step, so
\* no handler or continuation runs between its four assignments.
C8_SwapExchangesBothSlots ==
    [][lastOp'.op = "swapLocations"
          => /\ sourceLocation' = targetLocation
             /\ targetLocation' = sourceLocation
             /\ sourceQuery' = targetQuery
             /\ targetQuery' = sourceQuery]_vars

\* a swap of two different locations has run while a resolution was
\* outstanding
C8_Witness ==
    /\ lastOp.op = "swapLocations"
    /\ sourceLocation = NewYork
    /\ targetLocation = London
    /\ sourceQuery = NewYork.fullName
    /\ targetQuery = London.fullName
    /\ pending # <<>>

\* whether the runtime can tell the time at the location
HasClock(loc) == loc # Null /\ IsKnownZone(loc.ianaTimezone)

\* the instant t as YYYY-MM-DDTHH:mm in zone tz
CurrentTimeIn(tz, t) == IsoLocal(WallFields(ToLocal(tz, t)))

\* C9 as stated: after swapLocations, selectedDate is the current time in
\* the zone of the new source location, whatever it was before.
C9_SwapAlwaysReseeds ==
    [][lastOp'.op = "swapLocations"
          => /\ HasClock(sourceLocation')
             /\ selectedDate' = CurrentTimeIn(sourceLocation'.ianaTimezone, Now)]_vars

\* C9 (amended): after swapLocations, if the new source location (the
\* former target) is present and its zone is known to the runtime,
\* selectedDate is the current time in that zone as YYYY-MM-DDTHH:mm,
\* whatever it was before; otherwise selectedDate is unchanged.
C9_SwapReseedsWhenZoneKnown ==
    [][lastOp'.op = "swapLocations"
          => IF HasClock(sourceLocation')
             THEN /\ sourceLocation' = targetLocation
                  /\ selectedDate' = CurrentTimeIn(sourceLocation'.ianaTimezone, Now)
             ELSE selectedDate' = selectedDate]_vars

\* London and New York have been swapped after the clock moved on, and the
\* date field shows New York's time
C9_Witness ==
    /\ lastOp.op = "swapLocations"
    /\ sourceLocation = NewYork
    /\ targetLocation = London
    /\ nowIdx > 1
    /\ selectedDate = CurrentTimeIn("America/New_York", Now)

\* C10 as stated: a resolveSource call that completes with a location
\* overwrites selectedDate, in the same step, with the current time in the
\* location's zone; resolveTarget never changes selectedDate.
C10_SourceAlwaysReseeds ==
    [][/\ (lastOp'.op = "resolveSourceAfterAwait" /\ lastOp'.result # Null)
             => /\ IsKnownZone(lastOp'.result.ianaTimezone)
                /\ selectedDate' = CurrentTimeIn(lastOp'.result.ianaTimezone, Now)
       /\ lastOp'.op \in {"resolveTarget", "resolveTargetAfterAwait"}
             => selectedDate' = selectedDate]_vars

\* C10 (amended): a resolveSource call that completes with a location whose
\* zone is known to the runtime overwrites selectedDate, in the same step,
\* with the current time in that zone; with an unknown zone selectedDate is
\* unchanged; resolveTarget never changes selectedDate.
C10_SourceReseedsWhenZoneKnown ==
    [][/\ (lastOp'.op = "resolveSourceAfterAwait" /\ lastOp'.result # Null)
             => /\ sourceLocation' = lastOp'.result
                /\ IF IsKnownZone(lastOp'.result.ianaTimezone)
                   THEN selectedDate' = CurrentTimeIn(lastOp'.result.ianaTimezone, Now)
                   ELSE selectedDate' = selectedDate
       /\ lastOp'.op \in {"resolveTarget", "resolveTargetAfterAwait"}
             => selectedDate' = selectedDate]_vars

\* the source has resolved to New York after the user edited the date field
\* and the clock moved on, and the date field shows New York's time
C10_Witness ==
    /\ lastOp.op = "resolveSourceAfterAwait"
    /\ lastOp.result = NewYork
    /\ steps = MaxSteps
    /\ nowIdx > 1
    /\ selectedDate = CurrentTimeIn("America/New_York", Now)
    /\ selectedDate \notin EditInputs

(***************************************************************************)
(* Properties of the resolutions under way (Spec, SpecLive)                *)
(***************************************************************************)
\* no call of resolveSource or resolveTarget is suspended at its await
NoneOutstanding == pending = <<>>

\* the calls of a slot among the suspended calls, in the order of issue
CallsOf(calls, slot) == SelectSeq(calls, LAMBDA c : c.slot = slot)

\* the calls of a slot suspended at their await
Outstanding(slot) == CallsOf(pending, slot)

\* C11: resolveSource / resolveTarget with a non-empty query sets its
\* slot's loading flag and suspends at its call of resolveLocation in one
\* step; the step in which that call completes, whatever the result, sets
\* the flag to false; both flags are false whenever no call is outstanding;
\* and when every call completes, again and again no call is outstanding
\* and both flags are false.
C11_LoadingFlagFollowsTheCall ==
    /\ [][/\ \A q \in QueryInputs \ {<<>>} :
               /\ resolveSource(q)
                     => /\ isLoadingSource'
                        /\ CallsOf(pending', "source")
                              = Append(Outstanding("source"),
                                       [slot |-> "source", query |-> q,
                                        remote |-> PassesGuard(q)])
               /\ resolveTarget(q)
                     => /\ isLoadingTarget'
                        /\ CallsOf(pending', "target")
                              = Append(Outstanding("target"),
                                       [slot |-> "target", query |-> q,
                                        remote |-> PassesGuard(q)])
          /\ lastOp'.op = "resolveSourceAfterAwait" => ~isLoadingSource'
          /\ lastOp'.op = "resolveTargetAfterAwait" => ~isLoadingTarget']_vars
    /\ [](NoneOutstanding => ~isLoadingSource /\ ~isLoadingTarget)
    /\ []<>(NoneOutstanding /\ ~isLoadingSource /\ ~isLoadingTarget)

\* a source resolution that found nothing has completed as the last call
\* outstanding, and both flags are false
C11_Witness ==
    /\ lastOp.op = "resolveSourceAfterAwait"
    /\ lastOp.result = Null
    /\ NoneOutstanding
    /\ steps > 0
    /\ ~isLoadingSource
    /\ ~isLoadingTarget

\* the messages of the catch blocks (lines 58, 80)
FailedSource == ErrorMessage("Failed to resolve source location.", <<>>)
FailedTarget == ErrorMessage("Failed to resolve target location.", <<>>)

\* C12: when the remote call of a resolution rejects or its response
\* cannot be parsed, the step that completes the resolution sets the error
\* to the generic failure message of its slot.
C12_FailureShowsGenericMessage ==
    [][\A i \in DOMAIN pending, o \in RemoteOutcomes(RemoteLocations) :
          (pending[i].remote /\ RemoteFailed(o))
              => /\ resolveSourceAfterAwait(i, o) => error' = FailedSource
                 /\ resolveTargetAfterAwait(i, o) => error' = FailedTarget]_vars

\* whether the remote call answered and did not say valid = true
ReportsInvalid(outcome) ==
    outcome.kind = "text" /\ ~RemoteFailed(outcome) /\ ~SaysValid(outcome)

\* the completion of call i of a slot is what the step does
Completes(i, slot) ==
    /\ lastOp'.op = (IF slot = "source" THEN "resolveSourceAfterAwait"
                                        ELSE "resolveTargetAfterAwait")
    /\ pending[i].slot = slot
    /\ pending' = Remove(pending, i)

\* the answers of the remote service that do not say valid = true
InvalidOutcomes == {o \in RemoteOutcomes(RemoteLocations) : ReportsInvalid(o)}

\* what the completion of a resolution that found nothing does to the
\* error: a call that resolveLocation answered without a remote call, or
\* whose remote call reported the location invalid, sets
\* 'Could not find location: <query>' with the query of that call (such a
\* completion takes the call off pending and records the result null)
NotFoundSetsMessage ==
    \A i \in DOMAIN pending :
        (lastOp'.result = Null /\ (Completes(i, "source") \/ Completes(i, "target")))
            => \A o \in InvalidOutcomes :
                  (resolveSourceAfterAwait(i, o) \/ resolveTargetAfterAwait(i, o))
                      => error' = CouldNotFind(pending[i].query)

\* a request for either slot with query q is what the step does
Requested(q) ==
    /\ lastOp'.op \in {"resolveSource", "resolveTarget"}
    /\ resolveSource(q) \/ resolveTarget(q)

\* C13 as stated: a request with a query of fewer than 2 characters after
\* trimming, the empty query included, suspends a call whose completion
\* sets 'Could not find location: <query>', as does the completion of a
\* call whose remote call reported the location invalid.
C13_EveryShortQueryIsReported ==
    [][/\ NotFoundSetsMessage
       /\ \A q \in QueryInputs :
             (~PassesGuard(q) /\ Requested(q))
                 => /\ Len(pending') = Len(pending) + 1
                    /\ pending'[Len(pending')].query = q
                    /\ ~pending'[Len(pending')].remote]_vars

\* C13 (amended): a request with a non-empty query of fewer than 2
\* characters after trimming suspends a call whose completion sets 'Could
\* not find location: <query>', as does the completion of a call whose
\* remote call reported the location invalid; a request with the empty
\* query is ignored: it sets no message and suspends no call.
C13_NonEmptyShortQueryIsReported ==
    [][/\ NotFoundSetsMessage
       /\ \A q \in QueryInputs :
             (~PassesGuard(q) /\ Requested(q))
                 => IF q = <<>>
                    THEN UNCHANGED <<error, pending, isLoadingSource, isLoadingTarget,
                                     sourceQuery, targetQuery>>
                    ELSE /\ Len(pending') = Len(pending) + 1
                         /\ pending'[Len(pending')].query = q
                         /\ ~pending'[Len(pending')].remote]_vars

\* the target resolution of a blank-padded one-character query has
\* completed and its message is on display
C13_Witness ==
    /\ lastOp.op = "resolveTargetAfterAwait"
    /\ error = CouldNotFind(<<" ", "a">>)
    /\ targetQuery = <<" ", "a">>

\* the calls of a slot whose generateContent call has not settled
RemoteOutstanding(slot) == SelectSeq(Outstanding(slot), LAMBDA c : c.remote)

Slots == {"source", "target"}

\* C14: each slot has at most one outstanding remote resolution call, in
\* every reachable state.
C14_AtMostOneOutstandingPerSlot ==
    \A slot \in Slots : Len(RemoteOutstanding(slot)) <= 1

\* C15: when two resolutions of one slot are outstanding, both complete in
\* the end; whichever of the outstanding calls completes, in whatever
\* order they were issued, a completion with a location sets the slot's
\* location and query text to its result and one without leaves them, so
\* that the slot ends with the result of the successful completion that
\* arrived last.
C15_LastCompletionWins ==
    /\ (\E slot \in Slots : Len(Outstanding(slot)) >= 2) ~> NoneOutstanding
    /\ [][\A i \in DOMAIN pending :
             /\ Completes(i, "source")
                   => IF lastOp'.result # Null
                      THEN /\ sourceLocation' = lastOp'.result
                           /\ sourceQuery' = lastOp'.result.fullName
                      ELSE UNCHANGED <<sourceLocation, sourceQuery>>
             /\ Completes(i, "target")
                   => IF lastOp'.result # Null
                      THEN /\ targetLocation' = lastOp'.result
                           /\ targetQuery' = lastOp'.result.fullName
                      ELSE UNCHANGED <<targetLocation, targetQuery>>]_vars

\* one request followed the constructor's; its call, issued second for the
\* source, completed without a location, and then the constructor's call
\* completed with London, which the source slot now holds
C15_Witness ==
    /\ steps = 1
    /\ error = CouldNotFind(<<"a", "b">>)
    /\ lastOp = Op("resolveSourceAfterAwait", London)
    /\ Outstanding("source") = <<>>
    /\ sourceLocation = London
    /\ sourceQuery = London.fullName

\* the steps of a resolution of the source, and of the target
SourceOps == {"resolveSource", "resolveSourceAfterAwait"}
TargetOps == {"resolveTarget", "resolveTargetAfterAwait"}

\* C16: a slot's location changes only in a step that completes a
\* resolution of that slot with a location, or in a swapLocations step (so
\* a completion without a location leaves it); and no step of a
\* resolution of one slot changes the other slot's location, query text
\* or loading flag.
C16_LocationChangesOnlyBySuccessOrSwap ==
    [][/\ sourceLocation' # sourceLocation
             => \/ lastOp'.op = "swapLocations"
                \/ lastOp'.op = "resolveSourceAfterAwait" /\ lastOp'.result # Null
       /\ targetLocation' # targetLocation
             => \/ lastOp'.op = "swapLocations"
                \/ lastOp'.op = "resolveTargetAfterAwait" /\ lastOp'.result # Null
       /\ lastOp'.op \in SourceOps
             => UNCHANGED <<targetLocation, targetQuery, isLoadingTarget>>
       /\ lastOp'.op \in TargetOps
             => UNCHANGED <<sourceLocation, sourceQuery, isLoadingSource>>]_vars

\* a target resolution has completed with New York while a source
\* resolution is still outstanding, its slot empty and its flag set
C16_Witness ==
    /\ lastOp = Op("resolveTargetAfterAwait", NewYork)
    /\ targetLocation = NewYork
    /\ sourceLocation = Null
    /\ isLoadingSource
    /\ Outstanding("source") # <<>>

\* whether deriving the seed time for the location fails: Intl knows no
\* such zone
SeedFails(loc) == loc # Null /\ ~IsKnownZone(loc.ianaTimezone)

\* C17: when the location that a resolveSource completion or a swap puts
\* in the source slot has a zone the runtime does not know, the step
\* leaves selectedDate and the error as they were, the source slot holds
\* the new location and its name, and the handler ends as it does
\* otherwise: the resolution clears its loading flag and is no longer
\* outstanding, the swap has moved the former source to the target slot.
C17_SeedFailureIsNotFatal ==
    [][/\ (lastOp'.op = "resolveSourceAfterAwait" /\ SeedFails(lastOp'.result))
             => /\ selectedDate' = selectedDate
                /\ error' = error
                /\ sourceLocation' = lastOp'.result
                /\ sourceQuery' = lastOp'.result.fullName
                /\ ~isLoadingSource'
                /\ Len(pending') = Len(pending) - 1
       /\ (lastOp'.op = "swapLocations" /\ SeedFails(targetLocation))
             => /\ selectedDate' = selectedDate
                /\ error' = error
                /\ sourceLocation' = targetLocation
                /\ sourceQuery' = targetQuery
                /\ targetLocation' = sourceLocation
                /\ targetQuery' = sourceQuery]_vars

\* the source has resolved to a location with an unknown zone after the
\* clock moved on: the date field still shows the time it was seeded with
\* and no error is set
C17_Witness ==
    /\ lastOp = Op("resolveSourceAfterAwait", Phobos)
    /\ sourceLocation = Phobos
    /\ sourceQuery = Phobos.fullName
    /\ nowIdx = 2
    /\ selectedDate = IsoLocal(WallFields(NowValues[1]))
    /\ error = Null
    /\ ~isLoadingSource

(***************************************************************************)
(* Failure of the conversion (SpecConvert)                                 *)
(***************************************************************************)
\* the fields of a ConversionResult
ResultFields == {"sourceTimeDisplay", "targetTimeDisplay", "diffHours", "isNextDay"}

\* a display of a date and time: "Sat, Jun 15, 2:00 PM"
IsDisplay(x) ==
    /\ x.wd \in 0..6
    /\ x.mo \in 1..12
    /\ x.d \in 1..31
    /\ x.h12 \in 1..12
    /\ x.mi \in 0..59
    /\ x.pm \in BOOLEAN

\* a number of hours with one decimal: no two zones are 27 hours apart
IsHours(x) ==
    /\ x.neg \in BOOLEAN
    /\ x.whole \in 0..26
    /\ x.tenth \in 0..9

\* C18: with both locations and a date/time string set, convertedResult is
\* null when the zone of either location is unknown to the runtime, when
\* the string has no 'T' and when it cannot be read as a date; and a
\* result that is not null has all four fields, each a value of its kind,
\* computed from two known zones and a date that was read.
C18_ConversionFailsClosed ==
    /\ (/\ sourceLocation # Null
        /\ targetLocation # Null
        /\ \/ SeedFails(sourceLocation)
           \/ SeedFails(targetLocation)
           \/ selectedDate.form = "noT"
           \/ ~ParseDate(browserZone, selectedDate).ok) => convertedResult = Null
    /\ convertedResult # Null
          => /\ DOMAIN convertedResult = ResultFields
             /\ IsDisplay(convertedResult.sourceTimeDisplay)
             /\ IsDisplay(convertedResult.targetTimeDisplay)
             /\ IsHours(convertedResult.diffHours)
             /\ convertedResult.isNextDay \in BOOLEAN
             /\ HasClock(sourceLocation)
             /\ HasClock(targetLocation)
             /\ ParseDate(browserZone, selectedDate).ok

\* a date that can be read, a source with a known zone and a target whose
\* zone is unknown: no result
C18_Witness ==
    /\ sourceLocation = London
    /\ targetLocation = Phobos
    /\ selectedDate = DateString("iso", 2024, 6, 15, 14, 0)
    /\ convertedResult = Null

(***************************************************************************)
(* Overlapping resolutions and swaps (Spec)                                *)
(***************************************************************************)
\* the loading flag of a slot
IsLoading(slot) == IF slot = "source" THEN isLoadingSource ELSE isLoadingTarget

\* C19: a slot's loading flag is true in every state in which a remote
\* resolution call for the slot is outstanding, overlapping resolutions
\* of which one has completed included.
C19_LoadingWhileAnyCallOutstanding ==
    \A slot \in Slots : RemoteOutstanding(slot) # <<>> => IsLoading(slot)

\* what a completion with a location does to the slot it was issued for
\* and to the other slot, but for the date field
WritesOwnSlot ==
    /\ (lastOp'.op = "resolveSourceAfterAwait" /\ lastOp'.result # Null)
          => /\ sourceLocation' = lastOp'.result
             /\ sourceQuery' = lastOp'.result.fullName
             /\ UNCHANGED <<targetLocation, targetQuery>>
    /\ (lastOp'.op = "resolveTargetAfterAwait" /\ lastOp'.result # Null)
          => /\ targetLocation' = lastOp'.result
             /\ targetQuery' = lastOp'.result.fullName
             /\ UNCHANGED <<sourceLocation, sourceQuery, selectedDate>>

\* C20 as stated: a completion with a location, after whatever swaps ran
\* while its call was outstanding, sets the location and query text of the
\* slot it was issued for and leaves the other slot as the swap left it;
\* a source completion sets selectedDate from the result.
C20_CompletionSetsSlotAndDate ==
    [][/\ WritesOwnSlot
       /\ (lastOp'.op = "resolveSourceAfterAwait" /\ lastOp'.result # Null)
             => /\ HasClock(lastOp'.result)
                /\ selectedDate' = CurrentTimeIn(lastOp'.result.ianaTimezone, Now)]_vars

\* C20 (amended): a completion with a location, after whatever swaps ran
\* while its call was outstanding, sets the location and query text of the
\* slot it was issued for and leaves the other slot as the swap left it;
\* a source completion sets selectedDate from the result when the zone of
\* the result is known to the runtime, and leaves it otherwise.
C20_CompletionWritesItsOwnSlot ==
    [][/\ WritesOwnSlot
       /\ (lastOp'.op = "resolveSourceAfterAwait" /\ lastOp'.result # Null)
             => IF HasClock(lastOp'.result)
                THEN selectedDate' = CurrentTimeIn(lastOp'.result.ianaTimezone, Now)
                ELSE selectedDate' = selectedDate]_vars

\* the one event since construction was a swap, which moved the query
\* text "London" to the target; the constructor's source call completed
\* after it with London, which is in the source slot, and the target slot
\* holds what the source slot held before the swap: no location
C20_Witness ==
    /\ steps = 1
    /\ lastOp = Op("resolveSourceAfterAwait", London)
    /\ targetQuery = LondonQuery
    /\ targetLocation = Null
    /\ sourceLocation = London
    /\ sourceQuery = London.fullName
    /\ selectedDate = CurrentTimeIn("Europe/London", Now)

=============================================================================
